---------------------------- MODULE Spec2Model ----------------------------
(***************************************************************************)
(* A model of py-matrix (src/matrix.py): the Matrix class, a dense matrix  *)
(* kept as a flat row-major Python list with its row and column counts.    *)
(*                                                                         *)
(* The state is the Python object graph: Matrix objects (rows, cols and a  *)
(* reference to a list object) and list objects.  A Matrix does not copy   *)
(* the list it is given (line 40), so two Matrix objects can hold the same *)
(* list; that is why lists are objects of their own here.  Every method is *)
(* an operator from a heap to a heap, an outcome and a value, translated   *)
(* statement by statement, exceptions included.                            *)
(***************************************************************************)
EXTENDS Integers, Sequences, FiniteSets, TLC

VARIABLES
    mats,   \* live Matrix objects: id -> [rows, cols, ref]
    lists,  \* live list objects:   ref -> sequence of integers
    ret,    \* the last call: [op, kind, val, calls]; val is the number returned,
            \* or the variable the call's result was to be bound to
    log     \* the arguments the driver of a single-function run has passed

vars == <<mats, lists, ret, log>>

(***************************************************************************)
(* Bounds of the exploration.                                              *)
(***************************************************************************)
MaxDim == 2      \* largest rows / cols argument of the object machine
MaxVal == 1      \* largest element value of the object machine
DetMaxN == 3     \* largest dimension of a determinant input
RemMaxDim == 3   \* largest dimension of a row/column removal input
RemMaxOps == 2   \* removals applied in a row/column removal run
MulMaxDim == 3   \* largest dimension of a multiplication operand
MulMaxCells == 6 \* most cells of a multiplication operand

MatIds == {1, 2}             \* the client's two Matrix variables
Bits == {0, 1}               \* element values of the single-function inputs
DimArgs == (0 - 1)..MaxDim   \* rows / cols passed to the constructor
IndexArgs == (0 - 2 * MaxDim)..MaxDim \* index passed to remove_row / remove_column
Scalars == (0 - 1)..1        \* scalar factor passed to *

Min(x, y) == IF x < y THEN x ELSE y
Restrict(f, S) == [x \in S |-> f[x]]
Extend(f, k, v) == [x \in DOMAIN f \cup {k} |-> IF x = k THEN v ELSE f[x]]
\* The identity of a newly allocated object: the least id not in use.
NewId(f) == CHOOSE i \in 1..(Cardinality(DOMAIN f) + 1) :
                i \notin DOMAIN f /\ \A j \in 1..(i - 1) : j \in DOMAIN f

(***************************************************************************)
(* Python list primitives.  Indices are 0-based and a negative index       *)
(* counts from the end; an index outside -len..len-1 raises IndexError.    *)
(***************************************************************************)
InRange(s, i) == (0 - Len(s)) <= i /\ i < Len(s)
Pos(s, i) == IF i < 0 THEN i + Len(s) + 1 ELSE i + 1
list_get(s, i) == s[Pos(s, i)]
list_pop(s, i) == SubSeq(s, 1, Pos(s, i) - 1) \o SubSeq(s, Pos(s, i) + 1, Len(s))
\* [f(i, j) for i, j in zip(s, t)] stops at the shorter list
zip_len(s, t) == Min(Len(s), Len(t))

(***************************************************************************)
(* Outcomes.  kind is "ok" or the exception raised, named after its        *)
(* message: DataMismatch (line 42), DimensionMismatch (lines 57, 74, 81,   *)
(* 88), NotSquare (line 149) are ValueErrors, IndexError is the list's.    *)
(***************************************************************************)
Ok(h, v) == [h |-> h, kind |-> "ok", val |-> v]
Raise(h, k) == [h |-> h, kind |-> k, val |-> 0]

\* A list display or comprehension: a new list object.
new_list(h, data) ==
    LET ref == NewId(h.lists)
    IN  [h |-> [h EXCEPT !.lists = Extend(h.lists, ref, data)], ref |-> ref]

\* A constructor that takes any list, whatever its length.
init_unchecked(h, rows, cols, ref) ==
    Ok([h EXCEPT !.mats = Extend(h.mats, NewId(h.mats),
                                 [rows |-> rows, cols |-> cols, ref |-> ref])], NewId(h.mats))

\* Matrix.__init__ (the new object keeps the list it was given, uncopied)
__init__(h, rows, cols, ref) ==
    IF rows * cols = Len(h.lists[ref])
    THEN LET id == NewId(h.mats)
         IN  Ok([h EXCEPT !.mats = Extend(h.mats, id,
                        [rows |-> rows, cols |-> cols, ref |-> ref])], id)
    ELSE Raise(h, "DataMismatch")

\* Matrix(rows, cols, [ ... ]) on a list built by the method itself
MatrixOf(h, rows, cols, data) ==
    LET l == new_list(h, data) IN __init__(l.h, rows, cols, l.ref)

mdata(h, id) == h.lists[h.mats[id].ref]
dimensions(m) == <<m.rows, m.cols>>
is_square(m) == m.rows = m.cols
\* An index computed with the row count for the stride.
get_index_by_rows(m, row, col) == row * m.rows + col

get_index(m, row, col) == row * m.cols + col
\* get_element: [ok, val]
get_element(h, id, row, col) ==
    LET i == get_index(h.mats[id], row, col)
    IN  IF InRange(mdata(h, id), i)
        THEN [ok |-> TRUE, val |-> list_get(mdata(h, id), i)]
        ELSE [ok |-> FALSE, val |-> 0]


(***************************************************************************)
(* Structural mutation, lines 101-112.  Each loop pops one flat position   *)
(* per step, highest first; a pop that raises leaves the pops already done *)
(* in the list and the count not yet decremented.                          *)
(***************************************************************************)
RECURSIVE remove_column_loop(_, _, _, _)
\* for row in range(rows-1, -1, -1): mdata.pop(get_index(row, index))
remove_column_loop(s, m, index, row) ==
    IF row < 0 THEN [ok |-> TRUE, s |-> s]
    ELSE IF ~InRange(s, get_index(m, row, index)) THEN [ok |-> FALSE, s |-> s]
    ELSE remove_column_loop(list_pop(s, get_index(m, row, index)), m, index, row - 1)

remove_column(h, id, index) ==
    LET m == h.mats[id]
        r == remove_column_loop(h.lists[m.ref], m, index, m.rows - 1)
        h1 == [h EXCEPT !.lists[m.ref] = r.s]
    IN  IF r.ok THEN Ok([h1 EXCEPT !.mats[id].cols = m.cols - 1], 0)
        ELSE Raise(h1, "IndexError")

RECURSIVE remove_row_loop(_, _, _, _)
\* for column in range(cols-1, -1, -1): mdata.pop(get_index(index, column))
remove_row_loop(s, m, index, column) ==
    IF column < 0 THEN [ok |-> TRUE, s |-> s]
    ELSE IF ~InRange(s, get_index(m, index, column)) THEN [ok |-> FALSE, s |-> s]
    ELSE remove_row_loop(list_pop(s, get_index(m, index, column)), m, index, column - 1)

remove_row(h, id, index) ==
    LET m == h.mats[id]
        r == remove_row_loop(h.lists[m.ref], m, index, m.cols - 1)
        h1 == [h EXCEPT !.lists[m.ref] = r.s]
    IN  IF r.ok THEN Ok([h1 EXCEPT !.mats[id].rows = m.rows - 1], 0)
        ELSE Raise(h1, "IndexError")

\* copy_matrix: Matrix(self.rows, self.cols, list(self.mdata))
copy_matrix(h, id) ==
    MatrixOf(h, h.mats[id].rows, h.mats[id].cols, mdata(h, id))

\* A get_sub_matrix that removes from the matrix itself, not from a copy.
get_sub_matrix_in_place(h, id, column) ==
    LET r1 == remove_row(h, id, 0)
    IN  IF r1.kind # "ok" THEN r1
        ELSE LET r2 == remove_column(r1.h, id, column)
             IN  IF r2.kind # "ok" THEN r2 ELSE Ok(r2.h, id)

\* A get_sub_matrix that leaves the column in.
get_sub_matrix_keeps_column(h, id, column) ==
    LET mx == copy_matrix(h, id)
    IN  IF mx.kind # "ok" THEN mx
        ELSE LET r1 == remove_row(mx.h, mx.val, 0)
             IN  IF r1.kind # "ok" THEN r1 ELSE Ok(r1.h, mx.val)

\* get_sub_matrix: the copy, less its row 0, less column `column`
get_sub_matrix(h, id, column) ==
    LET mx == copy_matrix(h, id)
    IN  IF mx.kind # "ok" THEN mx
        ELSE LET r1 == remove_row(mx.h, mx.val, 0)
             IN  IF r1.kind # "ok" THEN r1
                 ELSE LET r2 == remove_column(r1.h, mx.val, column)
                      IN  IF r2.kind # "ok" THEN r2 ELSE Ok(r2.h, mx.val)

(***************************************************************************)
(* determinant, lines 144-162.  The outcome carries, besides the value,    *)
(* the recursive calls made: <<rows of the caller, shape of the callee>>.  *)
(***************************************************************************)
\* A sign that never alternates.
next_sign_kept(sign) == sign

\* sign *= -1
next_sign(sign) == sign * (0 - 1)

RECURSIVE determinant(_, _)
RECURSIVE determinant_loop(_, _, _, _, _, _)
\* while col < self.cols: ... ; return sum_
determinant_loop(h, id, col, sign, sum, calls) ==
    IF ~(col < h.mats[id].cols)
    THEN [h |-> h, kind |-> "ok", val |-> sum, calls |-> calls]
    ELSE LET sub == get_sub_matrix(h, id, col)
         IN  IF sub.kind # "ok"
             THEN [h |-> sub.h, kind |-> sub.kind, val |-> 0, calls |-> calls]
             ELSE LET det == determinant(sub.h, sub.val)
                      seen == calls \cup det.calls
                                \cup {<<h.mats[id].rows, dimensions(sub.h.mats[sub.val])>>}
                      e == get_element(det.h, id, 0, col)
                  IN  IF det.kind # "ok"
                      THEN [h |-> det.h, kind |-> det.kind, val |-> 0, calls |-> seen]
                      ELSE IF ~e.ok
                      THEN [h |-> det.h, kind |-> "IndexError", val |-> 0, calls |-> seen]
                      ELSE determinant_loop(det.h, id, col + 1, next_sign(sign),
                                            sum + e.val * det.val * sign, seen)

determinant(h, id) ==
    LET m == h.mats[id]
        s == mdata(h, id)
        leaf(kind, val) == [h |-> h, kind |-> kind, val |-> val, calls |-> {}]
    IN  IF ~is_square(m) THEN leaf("NotSquare", 0)
        ELSE IF m.rows = 1
        THEN IF InRange(s, 0) THEN leaf("ok", list_get(s, 0)) ELSE leaf("IndexError", 0)
        ELSE IF m.rows = 2
        THEN IF InRange(s, 0) /\ InRange(s, 3) /\ InRange(s, 1) /\ InRange(s, 2)
             THEN leaf("ok", list_get(s, 0) * list_get(s, 3) - list_get(s, 1) * list_get(s, 2))
             ELSE leaf("IndexError", 0)
        ELSE determinant_loop(h, id, 0, 1, 0, {})

(***************************************************************************)
(* Operators, lines 53-88.                                                 *)
(***************************************************************************)
zip_add(s, t) == [k \in 1..zip_len(s, t) |-> s[k] + t[k]]
zip_sub(s, t) == [k \in 1..zip_len(s, t) |-> s[k] - t[k]]
zip_mul(s, t) == [k \in 1..zip_len(s, t) |-> s[k] * t[k]]

__add__(h, a, b) ==
    IF dimensions(h.mats[a]) = dimensions(h.mats[b])
    THEN MatrixOf(h, h.mats[a].rows, h.mats[a].cols, zip_add(mdata(h, a), mdata(h, b)))
    ELSE Raise(h, "DimensionMismatch")

__sub__(h, a, b) ==
    IF dimensions(h.mats[a]) = dimensions(h.mats[b])
    THEN MatrixOf(h, h.mats[a].rows, h.mats[a].cols, zip_sub(mdata(h, a), mdata(h, b)))
    ELSE Raise(h, "DimensionMismatch")

__pow__(h, a, b) ==
    IF dimensions(h.mats[a]) = dimensions(h.mats[b])
    THEN MatrixOf(h, h.mats[a].rows, h.mats[a].cols, zip_mul(mdata(h, a), mdata(h, b)))
    ELSE Raise(h, "DimensionMismatch")

\* __mul__ with an int: [i*fact for i in self.mdata]
mul_scalar(h, a, fact) ==
    MatrixOf(h, h.mats[a].rows, h.mats[a].cols,
             [k \in 1..Len(mdata(h, a)) |-> mdata(h, a)[k] * fact])

\* one term of line 71: self.get_element(i, k) * self.get_element(k, j)
mul_term(h, a, b, i, j, k) ==
    LET x == get_element(h, a, i, k)
        y == get_element(h, a, k, j)
    IN  [ok |-> x.ok /\ y.ok, val |-> x.val * y.val]

RECURSIVE mul_sum(_, _, _, _, _, _)
\* for k in range(self.cols): sum_ += term, here for k in 0..n-1
mul_sum(h, a, b, i, j, n) ==
    IF n <= 0 THEN [ok |-> TRUE, val |-> 0]
    ELSE LET rest == mul_sum(h, a, b, i, j, n - 1)
             t == mul_term(h, a, b, i, j, n - 1)
         IN  [ok |-> rest.ok /\ t.ok, val |-> rest.val + t.val]

\* __mul__ with a Matrix
mul_matrix(h, a, b) ==
    LET ma == h.mats[a]
        mb == h.mats[b]
        nr == IF ma.rows < 0 THEN 0 ELSE ma.rows
        nc == IF mb.cols < 0 THEN 0 ELSE mb.cols
        entry(p) == mul_sum(h, a, b, (p - 1) \div nc, (p - 1) % nc, ma.cols)
    IN  IF ma.cols = mb.rows
        THEN IF \A p \in 1..(nr * nc) : entry(p).ok
             THEN MatrixOf(h, ma.rows, mb.cols, [p \in 1..(nr * nc) |-> entry(p).val])
             ELSE Raise(h, "IndexError")
        ELSE Raise(h, "DimensionMismatch")

(***************************************************************************)
(* The object machine: a client with two variables, each empty or bound to *)
(* a Matrix of its own, that calls any method on them.  `dst = a + b`      *)
(* evaluates the call with its operands bound and then rebinds dst; an     *)
(* exception leaves dst as it was.  An object no variable is bound to (a   *)
(* temporary of a method, the object dst was bound to before) is           *)
(* collected, and a list is named after the first variable whose Matrix    *)
(* holds it, which makes the heap's addresses canonical.                   *)
(***************************************************************************)
heap == [mats |-> mats, lists |-> lists]
NoRet == [op |-> "none", kind |-> "none", val |-> 0, calls |-> {}]
Live == DOMAIN mats
Free == MatIds \ Live
Fill(n, v) == [k \in 1..n |-> v]
ValArgs == 0..MaxVal
\* lengths of the caller's list: the one the shape asks for and its neighbours
LenArgs(rows, cols) == {n \in (rows * cols - 1)..(rows * cols + 1) : n >= 0}

Collect(ms, ls) ==
    LET first(i) == CHOOSE j \in DOMAIN ms :
                        ms[j].ref = ms[i].ref /\ \A k \in DOMAIN ms : ms[k].ref = ms[i].ref => j <= k
    IN  [mats |-> [i \in DOMAIN ms |-> [ms[i] EXCEPT !.ref = first(i)]],
         lists |-> [i \in {j \in DOMAIN ms : first(j) = j} |-> ls[ms[i].ref]]]

Outcome(op, r) ==
    [op |-> op, kind |-> r.kind, val |-> r.val,
     calls |-> IF "calls" \in DOMAIN r THEN r.calls ELSE {}]

\* dst = <call>: the call returned a Matrix (r.val) or raised.
Bind(op, r, dst) ==
    LET ms == IF r.kind = "ok"
              THEN [i \in Live \cup {dst} |-> IF i = dst THEN r.h.mats[r.val] ELSE r.h.mats[i]]
              ELSE Restrict(r.h.mats, Live)
        h == Collect(ms, r.h.lists)
    IN  /\ mats' = h.mats
        /\ lists' = h.lists
        /\ ret' = [Outcome(op, r) EXCEPT !.val = dst]

\* <call>, of a method that returns no Matrix
Effect(op, r) ==
    LET h == Collect(Restrict(r.h.mats, Live), r.h.lists)
    IN  /\ mats' = h.mats
        /\ lists' = h.lists
        /\ ret' = Outcome(op, r)

\* The exploration stops at element values outside 0..MaxVal and at row or
\* column counts below -1.
Bounded ==
    /\ \A i \in DOMAIN mats' : mats'[i].rows >= 0 - 1 /\ mats'[i].cols >= 0 - 1
    /\ \A l \in DOMAIN lists' : \A k \in 1..Len(lists'[l]) : lists'[l][k] \in ValArgs

Init ==
    /\ mats = <<>>
    /\ lists = <<>>
    /\ ret = NoRet
    /\ log = <<>>

\* dst = Matrix(rows, cols, [v, ..., v]) on a list of the caller's making
Construct ==
    \E dst \in Free, rows \in DimArgs, cols \in DimArgs, v \in ValArgs :
        \E n \in LenArgs(rows, cols) :
            /\ Bind("construct", MatrixOf(heap, rows, cols, Fill(n, v)), dst)
            /\ UNCHANGED log

\* dst = Matrix(rows, cols, d) on the list d an earlier Matrix was built from
ConstructShared ==
    \E dst \in Free, rows \in DimArgs, cols \in DimArgs, src \in Live :
        /\ Bind("construct", __init__(heap, rows, cols, mats[src].ref), dst)
        /\ UNCHANGED log

Copy ==
    \E dst \in MatIds, a \in Live :
        /\ Bind("copy_matrix", copy_matrix(heap, a), dst)
        /\ UNCHANGED log

CallRemoveRow(a, index) ==
    /\ Effect("remove_row", remove_row(heap, a, index))
    /\ Bounded
    /\ UNCHANGED log

CallRemoveColumn(a, index) ==
    /\ Effect("remove_column", remove_column(heap, a, index))
    /\ Bounded
    /\ UNCHANGED log

RemoveRow == \E a \in Live, index \in IndexArgs : CallRemoveRow(a, index)

RemoveColumn == \E a \in Live, index \in IndexArgs : CallRemoveColumn(a, index)

\* the same calls, with the index in range
RemoveRowInRange == \E a \in Live : \E index \in 0..(mats[a].rows - 1) : CallRemoveRow(a, index)

RemoveColumnInRange == \E a \in Live : \E index \in 0..(mats[a].cols - 1) : CallRemoveColumn(a, index)

CallAdd(dst, a, b) == Bind("add", __add__(heap, a, b), dst) /\ Bounded /\ UNCHANGED log

CallSub(dst, a, b) == Bind("sub", __sub__(heap, a, b), dst) /\ Bounded /\ UNCHANGED log

CallPow(dst, a, b) == Bind("pow", __pow__(heap, a, b), dst) /\ Bounded /\ UNCHANGED log

CallMulScalar(dst, a, fact) ==
    Bind("mul_scalar", mul_scalar(heap, a, fact), dst) /\ Bounded /\ UNCHANGED log

CallMulMatrix(dst, a, b) == Bind("mul", mul_matrix(heap, a, b), dst) /\ Bounded /\ UNCHANGED log

CallGetSubMatrix(dst, a, column) ==
    Bind("get_sub_matrix", get_sub_matrix(heap, a, column), dst) /\ UNCHANGED log

CallDeterminant(a) == Effect("determinant", determinant(heap, a)) /\ UNCHANGED log

Add == \E dst \in MatIds, a \in Live, b \in Live : CallAdd(dst, a, b)

Sub == \E dst \in MatIds, a \in Live, b \in Live : CallSub(dst, a, b)

Pow == \E dst \in MatIds, a \in Live, b \in Live : CallPow(dst, a, b)

MulScalar == \E dst \in MatIds, a \in Live, fact \in Scalars : CallMulScalar(dst, a, fact)

MulMatrix == \E dst \in MatIds, a \in Live, b \in Live : CallMulMatrix(dst, a, b)

GetSubMatrix == \E dst \in MatIds, a \in Live, column \in DimArgs : CallGetSubMatrix(dst, a, column)

Determinant == \E a \in Live : CallDeterminant(a)

\* del a
Drop ==
    \E a \in Live :
        /\ mats' = Collect(Restrict(mats, Live \ {a}), lists).mats
        /\ lists' = Collect(Restrict(mats, Live \ {a}), lists).lists
        /\ ret' = NoRet
        /\ UNCHANGED log

Next ==
    \/ Construct
    \/ ConstructShared
    \/ Copy
    \/ RemoveRow
    \/ RemoveColumn
    \/ Add
    \/ Sub
    \/ Pow
    \/ MulScalar
    \/ MulMatrix
    \/ GetSubMatrix
    \/ Determinant
    \/ Drop

Spec == Init /\ [][Next]_vars

\* The client that builds every Matrix from a list of its own and removes
\* only rows and columns that exist.
NextOwned ==
    \/ Construct
    \/ Copy
    \/ RemoveRowInRange
    \/ RemoveColumnInRange
    \/ Add
    \/ Sub
    \/ Pow
    \/ MulScalar
    \/ MulMatrix
    \/ GetSubMatrix
    \/ Determinant
    \/ Drop

SpecOwned == Init /\ [][NextOwned]_vars

\* That client, kept to the constructor, copy_matrix, the removals and the
\* operators.
NextClosed ==
    \/ Construct
    \/ Copy
    \/ RemoveRowInRange
    \/ RemoveColumnInRange
    \/ Add
    \/ Sub
    \/ Pow
    \/ MulScalar
    \/ MulMatrix
    \/ Drop

SpecClosed == Init /\ [][NextClosed]_vars

(***************************************************************************)
(* Properties of the object machine.                                       *)
(***************************************************************************)
\* What a client can observe of the Matrix bound to variable i.
Value(i) == [rows |-> mats[i].rows, cols |-> mats[i].cols, mdata |-> lists[mats[i].ref]]
Consistent(i) == Len(lists[mats[i].ref]) = mats[i].rows * mats[i].cols
Returning == {"add", "sub", "pow", "mul", "mul_scalar", "get_sub_matrix", "copy_matrix"}

\* C1: every Matrix that exists holds exactly rows * cols elements, after any
\* sequence of constructions (a mismatched one is rejected and leaves no
\* Matrix), copies, in-range removals and operators, on lists never shared.
C1_LengthInvariant == \A i \in Live : Consistent(i)

\* C1's case: a row removal has just succeeded, both variables are bound, and
\* a 1 x 2 Matrix holds its two elements.
C1_Witness ==
    /\ ret.op = "remove_row" /\ ret.kind = "ok"
    /\ Live = MatIds
    /\ \E i \in Live : mats[i].rows = 1 /\ mats[i].cols = 2 /\ Len(lists[mats[i].ref]) = 2

\* C7 (as claimed): remove_row / remove_column on one Matrix changes no other.
C7_MutationIsPrivate ==
    [][\A a \in MatIds, index \in IndexArgs :
          (a \in Live /\ (CallRemoveRow(a, index) \/ CallRemoveColumn(a, index)))
              => \A i \in Live \ {a} : Value(i)' = Value(i)]_vars

\* C8 (as claimed): no Matrix ever has a negative row or column count.
C8_NonNegativeCounts == \A i \in Live : mats[i].rows >= 0 /\ mats[i].cols >= 0

Built(r, c, d) == [rows |-> r, cols |-> c, mdata |-> d]
Heap1(a) == [mats |-> <<[rows |-> a.rows, cols |-> a.cols, ref |-> 1]>>, lists |-> <<a.mdata>>]
Heap2(a, b) ==
    [mats |-> <<[rows |-> a.rows, cols |-> a.cols, ref |-> 1],
                [rows |-> b.rows, cols |-> b.cols, ref |-> 2]>>,
     lists |-> <<a.mdata, b.mdata>>]

\* ---- determinant of every 0/1 matrix up to DetMaxN x DetMaxN ----
InitDet ==
    \E r \in 0..DetMaxN, c \in 0..DetMaxN :
        \E d \in [1..(r * c) -> Bits] :
            /\ mats = Heap1(Built(r, c, d)).mats
            /\ lists = Heap1(Built(r, c, d)).lists
            /\ ret = NoRet
            /\ log = <<>>

DetStep ==
    /\ log = <<>>
    /\ Effect("determinant", determinant(heap, 1))
    /\ log' = <<[op |-> "determinant", index |-> 0]>>

SpecDet == InitDet /\ [][DetStep]_vars

\* ---- remove_row / remove_column on a matrix of distinct elements ----
Iota(n) == [k \in 1..n |-> k]
RemIndexArgs == (0 - 2)..RemMaxDim

\* Variable 1 is the matrix operated on; variable 2 an equal matrix, built
\* from an equal list of its own, that no call is made on.
InitRemove ==
    \E r \in 0..RemMaxDim, c \in 0..RemMaxDim :
        /\ mats = Heap2(Built(r, c, Iota(r * c)), Built(r, c, Iota(r * c))).mats
        /\ lists = Heap2(Built(r, c, Iota(r * c)), Built(r, c, Iota(r * c))).lists
        /\ ret = NoRet
        /\ log = <<>>

RemoveRowStep ==
    \E index \in RemIndexArgs :
        /\ Len(log) < RemMaxOps
        /\ Effect("remove_row", remove_row(heap, 1, index))
        /\ log' = Append(log, [op |-> "remove_row", index |-> index])

RemoveColumnStep ==
    \E index \in RemIndexArgs :
        /\ Len(log) < RemMaxOps
        /\ Effect("remove_column", remove_column(heap, 1, index))
        /\ log' = Append(log, [op |-> "remove_column", index |-> index])

NextRemove ==
    \/ RemoveRowStep
    \/ RemoveColumnStep

SpecRemove == InitRemove /\ [][NextRemove]_vars

\* ---- a * b on every pair of small 0/1 matrices ----
MulShapes == {x \in (0..MulMaxDim) \X (0..MulMaxDim) : x[1] * x[2] <= MulMaxCells}

InitMul ==
    \E sa \in MulShapes, sb \in MulShapes :
        \E da \in [1..(sa[1] * sa[2]) -> Bits], db \in [1..(sb[1] * sb[2]) -> Bits] :
            /\ mats = Heap2(Built(sa[1], sa[2], da), Built(sb[1], sb[2], db)).mats
            /\ lists = Heap2(Built(sa[1], sa[2], da), Built(sb[1], sb[2], db)).lists
            /\ ret = NoRet
            /\ log = <<>>

\* c = a * b
MulStep ==
    /\ log = <<>>
    /\ Bind("mul", mul_matrix(heap, 1, 2), 3)
    /\ log' = <<[op |-> "mul", index |-> 0]>>

SpecMul == InitMul /\ [][MulStep]_vars

(***************************************************************************)
(* Properties of the single-method runs.                                   *)
(***************************************************************************)
Max(x, y) == IF x < y THEN y ELSE x
\* element (row, col), 0-based, of a row-major sequence d with c columns
At(d, c, row, col) == d[row * c + col + 1]
\* d less the positions (1-based) in the set gone, order kept
RECURSIVE Without(_, _)
Without(d, gone) ==
    IF d = <<>> THEN <<>>
    ELSE LET front == Without(SubSeq(d, 1, Len(d) - 1), gone)
         IN  IF Len(d) \in gone THEN front ELSE Append(front, d[Len(d)])
RowPositions(v, r) == {r * v.cols + q + 1 : q \in 0..(v.cols - 1)}
ColumnPositions(v, c) == {p * v.cols + c + 1 : p \in 0..(v.rows - 1)}
RowRemoved(pre, post) ==
    /\ post.rows = pre.rows - 1
    /\ post.cols = pre.cols
    /\ \E r \in 0..Max(pre.rows - 1, 0) : post.mdata = Without(pre.mdata, RowPositions(pre, r))
ColumnRemoved(pre, post) ==
    /\ post.rows = pre.rows
    /\ post.cols = pre.cols - 1
    /\ \E c \in 0..Max(pre.cols - 1, 0) : post.mdata = Without(pre.mdata, ColumnPositions(pre, c))
Last(q) == q[Len(q)]

\* C2 (as claimed): remove_row / remove_column either removes one whole row /
\* column and decrements the count, or raises and leaves rows, cols and mdata
\* as they were.
C2_NoPartialFailure ==
    [][log' # log =>
          \/ ret'.kind = "ok" /\ Last(log').op = "remove_row" /\ RowRemoved(Value(1), Value(1)')
          \/ ret'.kind = "ok" /\ Last(log').op = "remove_column" /\ ColumnRemoved(Value(1), Value(1)')
          \/ ret'.kind # "ok" /\ Value(1)' = Value(1)]_vars

\* C6: remove_row(i) then remove_column(j), both in range, leave the
\* (r-1) x (c-1) matrix whose element (p, q) is the original's element
\* (p, or p+1 from row i on; q, or q+1 from column j on).
C6_RowThenColumn ==
    (/\ Len(log) = 2
     /\ log[1].op = "remove_row" /\ log[1].index \in 0..(mats[2].rows - 1)
     /\ log[2].op = "remove_column" /\ log[2].index \in 0..(mats[2].cols - 1))
    => /\ ret.kind = "ok"
       /\ mats[1].rows = mats[2].rows - 1
       /\ mats[1].cols = mats[2].cols - 1
       /\ Len(lists[mats[1].ref]) = mats[1].rows * mats[1].cols
       /\ \A p \in 0..(mats[1].rows - 1), q \in 0..(mats[1].cols - 1) :
              At(lists[mats[1].ref], mats[1].cols, p, q)
                  = At(lists[mats[2].ref], mats[2].cols,
                       IF p < log[1].index THEN p ELSE p + 1,
                       IF q < log[2].index THEN q ELSE q + 1)

\* C6's case: row 0 and then column 1 removed from the 3 x 3 matrix 1..9.
C6_Witness ==
    /\ log = <<[op |-> "remove_row", index |-> 0], [op |-> "remove_column", index |-> 1]>>
    /\ Value(2) = Built(3, 3, <<1, 2, 3, 4, 5, 6, 7, 8, 9>>)
    /\ Value(1) = Built(2, 2, <<4, 6, 7, 9>>)

\* The mathematical product of the operands' rows and columns.
RECURSIVE DotProduct(_, _, _, _, _)
DotProduct(a, b, i, j, n) ==
    IF n = 0 THEN 0
    ELSE DotProduct(a, b, i, j, n - 1)
         + At(a.mdata, a.cols, i, n - 1) * At(b.mdata, b.cols, n - 1, j)

\* C3 (as claimed): a * b returns the matrix of the sums over k of
\* a[i][k] * b[k][j].
C3_ProductEntries ==
    (ret.op = "mul" /\ ret.kind = "ok") =>
        \A i \in 0..(mats[1].rows - 1), j \in 0..(mats[2].cols - 1) :
            At(Value(3).mdata, mats[2].cols, i, j) = DotProduct(Value(1), Value(2), i, j, mats[1].cols)

\* C4 (as claimed): a * b raises the dimension error exactly when
\* a.cols # b.rows, and otherwise returns an a.rows x b.cols Matrix.
C4_ProductShape ==
    ret.op = "mul" =>
        /\ ret.kind = "DimensionMismatch" <=> mats[1].cols # mats[2].rows
        /\ mats[1].cols = mats[2].rows =>
              /\ ret.kind = "ok"
              /\ mats[3].rows = mats[1].rows
              /\ mats[3].cols = mats[2].cols

\* The determinant by Leibniz' formula: the sum over the permutations of the
\* signed products of one element per row.
PermsOf == [n \in 0..DetMaxN |->
               {f \in [1..n -> 1..n] : \A i \in 1..n, j \in 1..n : i # j => f[i] # f[j]}]
Sgn(f, n) ==
    IF Cardinality({x \in (1..n) \X (1..n) : x[1] < x[2] /\ f[x[1]] > f[x[2]]}) % 2 = 0
    THEN 1 ELSE 0 - 1
RECURSIVE PermProduct(_, _, _)
PermProduct(v, f, n) ==
    IF n = 0 THEN 1 ELSE PermProduct(v, f, n - 1) * At(v.mdata, v.cols, n - 1, f[n] - 1)
RECURSIVE SumOver(_, _)
SumOver(v, fs) ==
    IF fs = {} THEN 0
    ELSE LET f == CHOOSE g \in fs : TRUE
         IN  Sgn(f, v.rows) * PermProduct(v, f, v.rows) + SumOver(v, fs \ {f})
Leibniz(v) == SumOver(v, PermsOf[v.rows])
Identity(n) == [k \in 1..(n * n) |-> IF (k - 1) \div n = (k - 1) % n THEN 1 ELSE 0]

\* C5: on a square n x n matrix, n >= 1, determinant returns the determinant;
\* 1 on the identity, x on [x], a*d - b*c on [a, b, c, d].
C5_DeterminantValue ==
    (ret.op = "determinant" /\ mats[1].rows = mats[1].cols /\ mats[1].rows >= 1) =>
        /\ ret.kind = "ok"
        /\ ret.val = Leibniz(Value(1))
        /\ Value(1).mdata = Identity(mats[1].rows) => ret.val = 1
        /\ mats[1].rows = 1 => ret.val = Value(1).mdata[1]
        /\ mats[1].rows = 2 => ret.val = Value(1).mdata[1] * Value(1).mdata[4]
                                          - Value(1).mdata[2] * Value(1).mdata[3]

\* C5's case: a 3 x 3 matrix expanded along its first row, of determinant -2.
C5_Witness ==
    /\ ret.op = "determinant" /\ ret.kind = "ok"
    /\ mats[1].rows = 3 /\ mats[1].cols = 3
    /\ ret.val = 0 - 2

\* C10: determinant raises NotSquare exactly on a non-square matrix; on a
\* square one, n >= 1, it returns, and every recursive call under it is made
\* by an m x m caller, m >= 3, on an (m-1) x (m-1) matrix, so raises nothing.
C10_DeterminantTerminates ==
    ret.op = "determinant" =>
        /\ ret.kind = "NotSquare" <=> mats[1].rows # mats[1].cols
        /\ (mats[1].rows = mats[1].cols /\ mats[1].rows >= 1) =>
              /\ ret.kind = "ok"
              /\ \A c \in ret.calls :
                     c[1] >= 3 /\ c[1] <= mats[1].rows /\ c[2] = <<c[1] - 1, c[1] - 1>>
              /\ {c[1] : c \in ret.calls} = 3..mats[1].rows

\* C10's case: the recursion has run on a matrix of the largest size.
C10_Witness ==
    /\ ret.op = "determinant" /\ ret.kind = "ok"
    /\ mats[1].rows = DetMaxN /\ mats[1].cols = DetMaxN
    /\ <<DetMaxN, <<DetMaxN - 1, DetMaxN - 1>>>> \in ret.calls

=============================================================================
